---- MODULE Spec2Model ----
(***************************************************************************)
(* Trickster Pi: the busy-flag gated, two-phase action sequence of         *)
(* src/src/trickster_controller.py, the /trigger, /play and /reload        *)
(* handlers of src/src/api_routes.py and the sound library of              *)
(* src/src/audio_manager.py.                                               *)
(*                                                                         *)
(* Two specifications share the variables and the actions:                 *)
(*   Spec     button presses and /trigger requests racing for the busy     *)
(*            flag; the body of play_audio_sequence is summarised by its   *)
(*            termination (the library is not reloaded here).              *)
(*   SpecLib  one triggered sequence with play_audio_sequence at the       *)
(*            grain of its shared reads, concurrent with a client sending  *)
(*            /play requests and a client sending /reload requests.        *)
(*   SpecLive SpecLib under fair scheduling.                               *)
(*   SpecLoad the /reload client alone, after a change of the directory.   *)
(* Time is counted in seconds; Tick lets TickStep seconds pass.            *)
(***************************************************************************)
EXTENDS Integers, Sequences, FiniteSets, TLC

\* ---- bounds of the model -------------------------------------------------
NumCallers == 2
MaxReloads == 2
MaxLibReloads == 1
MaxPlays == 1
TickStep == 10

\* ---- src/src/config.py ---------------------------------------------------
TARGET_AUDIO_DURATION == 60
MIN_DELAY == 10
MAX_DELAY == 20

Callers == 1..NumCallers

\* a delay drawn from below the configured range
DelayChoices_BelowRange == {0, MAX_DELAY}

\* random.uniform(MIN_DELAY, MAX_DELAY), sampled at the ends of its range
DelayChoices == {MIN_DELAY, MAX_DELAY}

Min(a, b) == IF a < b THEN a ELSE b

VARIABLES
  callback_in_progress, \* TricksterController.callback_in_progress
  led,                  \* level of LED_PIN
  hpc,                  \* per trigger: how it arrived and what /trigger answered
  pc,                   \* per trigger: position inside button_callback
  exc,                  \* per trigger: an exception is in flight in button_callback
  events,               \* per trigger: steps of a sequence that has not raised
  spc,                  \* per trigger: the servo thread (phase B)
  delay,                \* per trigger: the local variable delay
  slept,                \* per trigger: seconds spent in time.sleep(delay)
  apc,                  \* per trigger: the audio thread (phase A)
  aidx,                 \* per trigger: sound_index in play_audio_sequence
  elapsed,              \* per trigger: time.time() - start_time
  preloaded_sounds,     \* AudioManager.preloaded_sounds
  audio_filenames,      \* AudioManager.audio_filenames
  mixer_busy,           \* pygame.mixer.get_busy()
  dir,                  \* the directory AUDIO_FOLDER
  lpc, lrest, lprev,        \* the /reload request in progress
  lresp,                    \* the last answer of /reload
  lcount,                   \* /reload requests so far
  ppc, pidx, pname, presp,  \* the /play request in progress or last answered
  psound,                   \* selected_sound in play_random_sound
  pcount,                   \* /play requests so far
  stpc, stinfo,             \* the /status request in progress
  stresp,                   \* the last answer of /status
  sndpc, sndinfo,           \* the /sounds request in progress
  sndresp,                  \* the last answer of /sounds
  mpc,                      \* position inside main()
  cleanups,                 \* calls of trickster_controller.cleanup() so far
  app_runs,                 \* calls of app.run() so far
  duty,                     \* duty cycle of servo_pwm, in eighteenths of a percent
  changes,                  \* ChangeDutyCycle calls of the rotate_servo in progress
  rpc, rangle,              \* a rotate_servo call followed step by step
  vpc, vangle               \* a set_servo_angle call

seqVars == <<callback_in_progress, led, hpc, pc, exc, events, spc, delay, slept>>
audVars == <<apc, aidx, elapsed>>
libVars == <<preloaded_sounds, audio_filenames>>
relVars == <<lpc, lrest, lprev, lresp, lcount>>
playVars == <<ppc, pidx, pname, presp, psound, pcount>>
statVars == <<stpc, stinfo, stresp>>
soundsVars == <<sndpc, sndinfo, sndresp>>
mainVars == <<mpc, cleanups, app_runs>>
servoVars == <<duty, changes, rpc, rangle, vpc, vangle>>
extraVars == <<statVars, soundsVars, mainVars, servoVars>>
vars == <<seqVars, audVars, libVars, mixer_busy, dir, relVars, playVars, extraVars>>

\* ---- file names and the directory ----------------------------------------
\* A file name is the sequence of its characters.
A_WAV == <<"a", ".", "w", "a", "v">>
B_MP3 == <<"b", ".", "m", "p", "3">>
X_WAV == <<"x", ".", "w", "a", "v">>
C_WAV == <<"c", ".", "W", "A", "V">>
D_TXT == <<"d", ".", "t", "x", "t">>
E_MP3 == <<"e", ".", "M", "p", "3">>

\* the files pygame.mixer.Sound cannot decode
CorruptFiles == {X_WAV}

\* pygame.mixer.Sound(full_path) succeeds
Decodes(f) == f \notin CorruptFiles

\* what os.path.exists and os.listdir see of AUDIO_FOLDER
DirChoices == {[exists |-> FALSE, listing |-> <<>>],
               [exists |-> TRUE, listing |-> <<A_WAV, B_MP3>>]}

\* what the directory may hold after files were added to it or removed
FolderChoices ==
  DirChoices \cup
    {[exists |-> TRUE, listing |-> l] :
       l \in {<<>>, <<A_WAV>>, <<D_TXT>>, <<A_WAV, B_MP3, C_WAV, D_TXT>>,
              <<A_WAV, X_WAV, B_MP3>>, <<X_WAV, C_WAV>>,
              <<A_WAV, B_MP3, C_WAV, E_MP3>>}}

Lower(ch) ==
  CASE ch = "W" -> "w" [] ch = "A" -> "a" [] ch = "V" -> "v"
    [] ch = "M" -> "m" [] ch = "P" -> "p" [] OTHER -> ch

LowerStr(s) == [i \in 1..Len(s) |-> Lower(s[i])]

EndsWith(s, suf) ==
  /\ Len(s) >= Len(suf)
  /\ SubSeq(s, Len(s) - Len(suf) + 1, Len(s)) = suf

\* IsAudioName comparing the name as it is spelt
IsAudioName_CaseSensitive(f) ==
  \/ EndsWith(f, <<".", "w", "a", "v">>)
  \/ EndsWith(f, <<".", "m", "p", "3">>)

\* filename.lower().endswith(('.wav', '.mp3'))
IsAudioName(f) ==
  \/ EndsWith(LowerStr(f), <<".", "w", "a", "v">>)
  \/ EndsWith(LowerStr(f), <<".", "m", "p", "3">>)

RECURSIVE LoadAll(_)
\* the library a complete load_audio_files builds from a listing
LoadAll(listing) ==
  IF listing = <<>> THEN <<>>
  ELSE IF IsAudioName(Head(listing)) /\ Decodes(Head(listing))
       THEN <<Head(listing)>> \o LoadAll(Tail(listing))
       ELSE LoadAll(Tail(listing))

Loaded(d) == IF d.exists THEN LoadAll(d.listing) ELSE <<>>

\* ---- positions ------------------------------------------------------------
Finished == {"ignored", "returned", "raised"}
InSequence == {"led_on", "start_audio", "sleep", "start_servo",
               "join_audio", "join_servo", "fin_led", "fin_flag"}
PastCheck == {"set"} \cup InSequence
AudioRunning == {"a_check", "a_pick", "a_sound", "a_name", "a_play", "a_wait"}
AudioEnded == {"a_noop", "a_completed", "a_error"}
\* the positions of a /play request between its first test and its answer
InPlay == {"p_pick", "p_sound", "p_name", "p_play", "p_ret"}
\* the positions of a /reload request between its arrival and its answer
InReload == {"l_clear_s", "l_clear_n", "l_list", "l_entry", "l_name", "l_resp"}

\* a request that has not been answered yet
NoResponse == [answered |-> FALSE]

\* no audio_info held by a handler
NoInfo == [total_sounds |-> 0, sounds |-> <<>>]

\* the objects as their constructors leave them: TricksterController(),
\* GPIOController() with servo_pwm.start(0), no request and no trigger yet
Constructed ==
  /\ callback_in_progress = FALSE
  /\ led = FALSE
  /\ hpc = [c \in Callers |-> "none"]
  /\ pc = [c \in Callers |-> "idle"]
  /\ exc = [c \in Callers |-> FALSE]
  /\ events = [c \in Callers |-> <<>>]
  /\ spc = [c \in Callers |-> "none"]
  /\ delay = [c \in Callers |-> 0]
  /\ slept = [c \in Callers |-> 0]
  /\ apc = [c \in Callers |-> "none"]
  /\ aidx = [c \in Callers |-> 0]
  /\ elapsed = [c \in Callers |-> 0]
  /\ mixer_busy = FALSE
  /\ lpc = "none"
  /\ lrest = <<>>
  /\ lprev = 0
  /\ lresp = NoResponse
  /\ lcount = 0
  /\ ppc = "none"
  /\ pidx = 0
  /\ pname = <<>>
  /\ presp = NoResponse
  /\ pcount = 0
  /\ psound = <<>>
  /\ stpc = "none"
  /\ stinfo = 0
  /\ stresp = NoResponse
  /\ sndpc = "none"
  /\ sndinfo = NoInfo
  /\ sndresp = NoResponse
  /\ cleanups = 0
  /\ duty = 0
  /\ changes = 0
  /\ rpc = "none"
  /\ rangle = 0
  /\ vpc = "none"
  /\ vangle = 0

\* main() has called initialize(), which loaded the library, and is inside
\* app.run(): the server is serving
Init ==
  /\ Constructed
  /\ dir \in DirChoices
  /\ preloaded_sounds = Loaded(dir)
  /\ audio_filenames = Loaded(dir)
  /\ mpc = "serving"
  /\ app_runs = 1

\* ---- how a trigger arrives -----------------------------------------------
\* Triggers are numbered in the order they arrive.
Arrives(c) == hpc[c] = "none" /\ (IF c = 1 THEN TRUE ELSE hpc[c - 1] # "none")

\* A falling edge on BUTTON_PIN: the GPIO event thread calls button_callback.
\* That thread runs one callback at a time.
Press(c) ==
  /\ Arrives(c)
  /\ \A d \in Callers : hpc[d] = "button" => pc[d] \in Finished
  /\ hpc' = [hpc EXCEPT ![c] = "button"]
  /\ pc' = [pc EXCEPT ![c] = "check"]
  /\ UNCHANGED <<callback_in_progress, led, exc, events, spc, delay, slept>>
  /\ UNCHANGED <<audVars, libVars, mixer_busy, dir, relVars, playVars>>
  /\ UNCHANGED extraVars

\* GET /trigger arrives: the handler reads is_busy()
TriggerCheck(c) ==
  /\ Arrives(c)
  /\ hpc' = [hpc EXCEPT ![c] = IF callback_in_progress THEN "busy" ELSE "spawn"]
  /\ UNCHANGED <<callback_in_progress, led, pc, exc, events, spc, delay, slept>>
  /\ UNCHANGED <<audVars, libVars, mixer_busy, dir, relVars, playVars>>
  /\ UNCHANGED extraVars

\* TriggerSpawn answering only when the sequence has run to its end
TriggerSpawn_Waits(c) ==
  /\ hpc[c] = "spawn"
  /\ hpc' = [hpc EXCEPT ![c] = "ok"]
  /\ pc' = [pc EXCEPT ![c] = "returned"]
  /\ UNCHANGED <<callback_in_progress, led, exc, events, spc, delay, slept>>
  /\ UNCHANGED <<audVars, libVars, mixer_busy, dir, relVars, playVars>>
  /\ UNCHANGED extraVars

\* the handler starts the worker thread and answers success:true; if
\* callback_thread.start() raises, nothing in the handler catches it and
\* the request ends with an unhandled error
TriggerSpawn(c) ==
  /\ hpc[c] = "spawn"
  /\ \/ /\ hpc' = [hpc EXCEPT ![c] = "ok"]
        /\ pc' = [pc EXCEPT ![c] = "check"]
     \/ /\ hpc' = [hpc EXCEPT ![c] = "unhandled"]
        /\ UNCHANGED pc
  /\ UNCHANGED <<callback_in_progress, led, exc, events, spc, delay, slept>>
  /\ UNCHANGED <<audVars, libVars, mixer_busy, dir, relVars, playVars>>
  /\ UNCHANGED extraVars

\* ---- button_callback ------------------------------------------------------
\* a step of the try block raises: control goes to the finally clause
Raise(c) ==
  /\ pc' = [pc EXCEPT ![c] = "fin_led"]
  /\ exc' = [exc EXCEPT ![c] = TRUE]
  /\ events' = [events EXCEPT ![c] = <<>>]

\* the step e of a sequence that has not raised
Log(c, e) ==
  events' = [events EXCEPT ![c] = IF exc[c] THEN <<>> ELSE Append(@, e)]

\* CheckBusy without its test of the flag
CheckBusy_NoTest(c) ==
  /\ pc[c] = "check"
  /\ pc' = [pc EXCEPT ![c] = "set"]
  /\ UNCHANGED <<callback_in_progress, led, hpc, exc, events, spc, delay, slept>>
  /\ UNCHANGED <<audVars, libVars, mixer_busy, dir, relVars, playVars>>
  /\ UNCHANGED extraVars

\* if self.callback_in_progress: print(...); return
CheckBusy(c) ==
  /\ pc[c] = "check"
  /\ pc' = [pc EXCEPT ![c] = IF callback_in_progress THEN "ignored" ELSE "set"]
  /\ UNCHANGED <<callback_in_progress, led, hpc, exc, events, spc, delay, slept>>
  /\ UNCHANGED <<audVars, libVars, mixer_busy, dir, relVars, playVars>>
  /\ UNCHANGED extraVars

\* self.callback_in_progress = True
SetBusy(c) ==
  /\ pc[c] = "set"
  /\ callback_in_progress' = TRUE
  /\ pc' = [pc EXCEPT ![c] = "led_on"]
  /\ Log(c, "busy_on")
  /\ UNCHANGED <<led, hpc, exc, spc, delay, slept>>
  /\ UNCHANGED <<audVars, libVars, mixer_busy, dir, relVars, playVars>>
  /\ UNCHANGED extraVars

\* gpio_controller.set_led(True)
LedOn(c) ==
  /\ pc[c] = "led_on"
  /\ \/ /\ led' = TRUE
        /\ pc' = [pc EXCEPT ![c] = "start_audio"]
        /\ Log(c, "led_on")
        /\ UNCHANGED exc
     \/ /\ Raise(c)
        /\ UNCHANGED led
  /\ UNCHANGED <<callback_in_progress, hpc, spc, delay, slept>>
  /\ UNCHANGED <<audVars, libVars, mixer_busy, dir, relVars, playVars>>
  /\ UNCHANGED extraVars

\* audio_thread.start(); delay = random.uniform(MIN_DELAY, MAX_DELAY)
StartAudio(c) ==
  /\ pc[c] = "start_audio"
  /\ \/ /\ apc' = [apc EXCEPT ![c] = "a_check"]
        /\ \E d \in DelayChoices : delay' = [delay EXCEPT ![c] = d]
        /\ slept' = [slept EXCEPT ![c] = 0]
        /\ pc' = [pc EXCEPT ![c] = "sleep"]
        /\ Log(c, "audio_start")
        /\ UNCHANGED exc
     \/ /\ Raise(c)
        /\ UNCHANGED <<apc, delay, slept>>
  /\ UNCHANGED <<callback_in_progress, led, hpc, spc>>
  /\ UNCHANGED <<aidx, elapsed, libVars, mixer_busy, dir, relVars, playVars>>
  /\ UNCHANGED extraVars

\* Sleep returning before the delay has passed
Sleep_ReturnsEarly(c) ==
  /\ pc[c] = "sleep"
  /\ \/ /\ pc' = [pc EXCEPT ![c] = "start_servo"]
        /\ UNCHANGED <<exc, events>>
     \/ Raise(c)
  /\ delay' = [delay EXCEPT ![c] = 0]
  /\ slept' = [slept EXCEPT ![c] = 0]
  /\ UNCHANGED <<callback_in_progress, led, hpc, spc>>
  /\ UNCHANGED <<audVars, libVars, mixer_busy, dir, relVars, playVars>>
  /\ UNCHANGED extraVars

\* time.sleep(delay) returns once delay seconds have passed, or raises;
\* delay is not used after it
Sleep(c) ==
  /\ pc[c] = "sleep"
  /\ \/ /\ slept[c] >= delay[c]
        /\ pc' = [pc EXCEPT ![c] = "start_servo"]
        /\ UNCHANGED <<exc, events>>
     \/ Raise(c)
  /\ delay' = [delay EXCEPT ![c] = 0]
  /\ slept' = [slept EXCEPT ![c] = 0]
  /\ UNCHANGED <<callback_in_progress, led, hpc, spc>>
  /\ UNCHANGED <<audVars, libVars, mixer_busy, dir, relVars, playVars>>
  /\ UNCHANGED extraVars

\* servo_thread.start()
StartServo(c) ==
  /\ pc[c] = "start_servo"
  /\ \/ /\ spc' = [spc EXCEPT ![c] = "running"]
        /\ pc' = [pc EXCEPT ![c] = "join_audio"]
        /\ Log(c, "servo_start")
        /\ UNCHANGED exc
     \/ /\ Raise(c)
        /\ UNCHANGED spc
  /\ UNCHANGED <<callback_in_progress, led, hpc, delay, slept>>
  /\ UNCHANGED <<audVars, libVars, mixer_busy, dir, relVars, playVars>>
  /\ UNCHANGED extraVars

\* audio_thread.join()
JoinAudio(c) ==
  /\ pc[c] = "join_audio"
  /\ apc[c] \in AudioEnded
  /\ pc' = [pc EXCEPT ![c] = "join_servo"]
  /\ Log(c, "audio_joined")
  /\ UNCHANGED <<callback_in_progress, led, hpc, exc, spc, delay, slept>>
  /\ UNCHANGED <<audVars, libVars, mixer_busy, dir, relVars, playVars>>
  /\ UNCHANGED extraVars

\* JoinServo not waiting for the servo thread
JoinServo_NoWait(c) ==
  /\ pc[c] = "join_servo"
  /\ pc' = [pc EXCEPT ![c] = "fin_led"]
  /\ Log(c, "servo_joined")
  /\ UNCHANGED <<callback_in_progress, led, hpc, exc, spc, delay, slept>>
  /\ UNCHANGED <<audVars, libVars, mixer_busy, dir, relVars, playVars>>
  /\ UNCHANGED extraVars

\* servo_thread.join()
JoinServo(c) ==
  /\ pc[c] = "join_servo"
  /\ spc[c] = "done"
  /\ pc' = [pc EXCEPT ![c] = "fin_led"]
  /\ Log(c, "servo_joined")
  /\ UNCHANGED <<callback_in_progress, led, hpc, exc, spc, delay, slept>>
  /\ UNCHANGED <<audVars, libVars, mixer_busy, dir, relVars, playVars>>
  /\ UNCHANGED extraVars

\* finally: gpio_controller.set_led(False); if it raises, the flag
\* assignment after it is skipped and the exception leaves button_callback
FinLed(c) ==
  /\ pc[c] = "fin_led"
  /\ \/ /\ led' = FALSE
        /\ pc' = [pc EXCEPT ![c] = "fin_flag"]
        /\ Log(c, "led_off")
        /\ UNCHANGED exc
     \/ /\ pc' = [pc EXCEPT ![c] = "raised"]
        /\ exc' = [exc EXCEPT ![c] = TRUE]
        /\ events' = [events EXCEPT ![c] = <<>>]
        /\ UNCHANGED led
  /\ UNCHANGED <<callback_in_progress, hpc, spc, delay, slept>>
  /\ UNCHANGED <<audVars, libVars, mixer_busy, dir, relVars, playVars>>
  /\ UNCHANGED extraVars

\* finally: self.callback_in_progress = False; then the exception in
\* flight, if any, propagates to the caller
FinFlag(c) ==
  /\ pc[c] = "fin_flag"
  /\ callback_in_progress' = FALSE
  /\ pc' = [pc EXCEPT ![c] = IF exc[c] THEN "raised" ELSE "returned"]
  /\ Log(c, "busy_off")
  /\ UNCHANGED <<led, hpc, exc, spc, delay, slept>>
  /\ UNCHANGED <<audVars, libVars, mixer_busy, dir, relVars, playVars>>
  /\ UNCHANGED extraVars

\* ---- the servo PWM ----------------------------------------------------------
\* The duty cycle is kept in units of 1/DutyScale percent, so that
\* 2 + angle/18 is the integer 2*18 + angle.
DutyScale == 18
DutyBase == 2
\* range(0, 160, 1)
SweepEnd == 160
\* set_servo_angle's documented range, 0-180 degrees
MaxAngle == 180

\* Duty computed without the offset 2
Duty_NoOffset(angle) == angle

\* duty_cycle = 2 + (angle / 18), and duty = float(angle) / 18 + 2
Duty(angle) == DutyBase * DutyScale + angle

\* ---- phase B: gpio_controller.rotate_servo on the servo thread -------------
\* the whole sweep in one step: SweepEnd duty-cycle changes, the last one
\* for angle SweepEnd - 1
RotateServo(c) ==
  /\ spc[c] = "running"
  /\ spc' = [spc EXCEPT ![c] = "done"]
  /\ duty' = Duty(SweepEnd - 1)
  /\ changes' = SweepEnd
  /\ UNCHANGED <<callback_in_progress, led, hpc, pc, exc, events, delay, slept>>
  /\ UNCHANGED <<audVars, libVars, mixer_busy, dir, relVars, playVars>>
  /\ UNCHANGED <<statVars, soundsVars, mainVars, rpc, rangle, vpc, vangle>>

\* the sweep step by step; rpc and rangle are the position and the loop
\* variable of the one rotate_servo call in progress
\* for angle in range(0, 160, 1): the first iteration
RotateBegin(c) ==
  /\ spc[c] = "running"
  /\ rpc = "none"
  /\ rpc' = "r_change"
  /\ rangle' = 0
  /\ changes' = 0
  /\ UNCHANGED <<seqVars, audVars, libVars, mixer_busy, dir, relVars, playVars>>
  /\ UNCHANGED <<statVars, soundsVars, mainVars, duty, vpc, vangle>>

\* duty = float(angle) / 18 + 2; self.servo_pwm.ChangeDutyCycle(duty)
RotateChange(c) ==
  /\ spc[c] = "running"
  /\ rpc = "r_change"
  /\ duty' = Duty(rangle)
  /\ changes' = changes + 1
  /\ rpc' = "r_sleep"
  /\ UNCHANGED <<seqVars, audVars, libVars, mixer_busy, dir, relVars, playVars>>
  /\ UNCHANGED <<statVars, soundsVars, mainVars, rangle, vpc, vangle>>

\* RotateSleep with the loop running one angle further
RotateSleep_OneMore(c) ==
  /\ spc[c] = "running"
  /\ rpc = "r_sleep"
  /\ IF rangle + 1 <= SweepEnd
     THEN /\ rangle' = rangle + 1
          /\ rpc' = "r_change"
          /\ UNCHANGED spc
     ELSE /\ rangle' = 0
          /\ rpc' = "none"
          /\ spc' = [spc EXCEPT ![c] = "done"]
  /\ UNCHANGED <<callback_in_progress, led, hpc, pc, exc, events, delay, slept>>
  /\ UNCHANGED <<audVars, libVars, mixer_busy, dir, relVars, playVars>>
  /\ UNCHANGED <<statVars, soundsVars, mainVars, duty, changes, vpc, vangle>>

\* time.sleep(0.01); then the next angle of the range, or rotate_servo
\* returns and the servo thread ends
RotateSleep(c) ==
  /\ spc[c] = "running"
  /\ rpc = "r_sleep"
  /\ IF rangle + 1 < SweepEnd
     THEN /\ rangle' = rangle + 1
          /\ rpc' = "r_change"
          /\ UNCHANGED spc
     ELSE /\ rangle' = 0
          /\ rpc' = "none"
          /\ spc' = [spc EXCEPT ![c] = "done"]
  /\ UNCHANGED <<callback_in_progress, led, hpc, pc, exc, events, delay, slept>>
  /\ UNCHANGED <<audVars, libVars, mixer_busy, dir, relVars, playVars>>
  /\ UNCHANGED <<statVars, soundsVars, mainVars, duty, changes, vpc, vangle>>

RotateSteps(c) == RotateBegin(c) \/ RotateChange(c) \/ RotateSleep(c)

\* ---- gpio_controller.set_servo_angle -----------------------------------------
\* duty_cycle = 2 + (angle / 18); self.servo_pwm.ChangeDutyCycle(duty_cycle)
SetServoApply(angle) ==
  /\ vpc \in {"none", "done"}
  /\ vangle' = angle
  /\ duty' = Duty(angle)
  /\ changes' = 1
  /\ vpc' = "v_sleep"
  /\ UNCHANGED <<seqVars, audVars, libVars, mixer_busy, dir, relVars, playVars>>
  /\ UNCHANGED <<statVars, soundsVars, mainVars, rpc, rangle>>

\* time.sleep(0.5)
SetServoHold ==
  /\ vpc = "v_sleep"
  /\ vpc' = "v_zero"
  /\ UNCHANGED <<seqVars, audVars, libVars, mixer_busy, dir, relVars, playVars>>
  /\ UNCHANGED <<statVars, soundsVars, mainVars, duty, changes, rpc, rangle, vangle>>

\* SetServoZero leaving the signal on
SetServoZero_KeepsSignal ==
  /\ vpc = "v_zero"
  /\ changes' = changes + 1
  /\ vangle' = 0
  /\ vpc' = "done"
  /\ UNCHANGED <<seqVars, audVars, libVars, mixer_busy, dir, relVars, playVars>>
  /\ UNCHANGED <<statVars, soundsVars, mainVars, duty, rpc, rangle>>

\* self.servo_pwm.ChangeDutyCycle(0), and set_servo_angle returns
SetServoZero ==
  /\ vpc = "v_zero"
  /\ duty' = 0
  /\ changes' = changes + 1
  /\ vangle' = 0
  /\ vpc' = "done"
  /\ UNCHANGED <<seqVars, audVars, libVars, mixer_busy, dir, relVars, playVars>>
  /\ UNCHANGED <<statVars, soundsVars, mainVars, rpc, rangle>>

SetServoAngle ==
  \/ \E angle \in 0..MaxAngle : SetServoApply(angle)
  \/ SetServoHold
  \/ SetServoZero

\* ---- phase A: play_audio_sequence on the audio thread ----------------------
\* while (time.time() - start_time) < TARGET_AUDIO_DURATION
LoopTest(e) == IF e < TARGET_AUDIO_DURATION THEN "a_pick" ELSE "a_completed"

\* play_audio_sequence returns (r says how); its locals are gone
AudioEnd(c, r) ==
  /\ apc' = [apc EXCEPT ![c] = r]
  /\ aidx' = [aidx EXCEPT ![c] = 0]
  /\ elapsed' = [elapsed EXCEPT ![c] = 0]

\* AudioCheck without its test for an empty library
AudioCheck_NoEmptyTest(c) ==
  /\ apc[c] = "a_check"
  /\ apc' = [apc EXCEPT ![c] = LoopTest(0)]
  /\ elapsed' = [elapsed EXCEPT ![c] = 0]
  /\ UNCHANGED aidx
  /\ UNCHANGED <<seqVars, libVars, mixer_busy, dir, relVars, playVars>>
  /\ UNCHANGED extraVars

\* if not self.preloaded_sounds: return; start_time = time.time()
AudioCheck(c) ==
  /\ apc[c] = "a_check"
  /\ IF preloaded_sounds = <<>>
     THEN AudioEnd(c, "a_noop")
     ELSE /\ apc' = [apc EXCEPT ![c] = LoopTest(0)]
          /\ elapsed' = [elapsed EXCEPT ![c] = 0]
          /\ UNCHANGED aidx
  /\ UNCHANGED <<seqVars, libVars, mixer_busy, dir, relVars, playVars>>
  /\ UNCHANGED extraVars

\* sound_index = random.randint(0, len(self.preloaded_sounds) - 1); an empty
\* range raises ValueError, caught by the except of play_audio_sequence.
\* Indices are 1-based here.
AudioPick(c) ==
  /\ apc[c] = "a_pick"
  /\ IF Len(preloaded_sounds) = 0
     THEN AudioEnd(c, "a_error")
     ELSE /\ \E i \in 1..Len(preloaded_sounds) : aidx' = [aidx EXCEPT ![c] = i]
          /\ apc' = [apc EXCEPT ![c] = "a_sound"]
          /\ UNCHANGED elapsed
  /\ UNCHANGED <<seqVars, libVars, mixer_busy, dir, relVars, playVars>>
  /\ UNCHANGED extraVars

\* selected_sound = self.preloaded_sounds[sound_index]
AudioSound(c) ==
  /\ apc[c] = "a_sound"
  /\ IF aidx[c] <= Len(preloaded_sounds)
     THEN /\ apc' = [apc EXCEPT ![c] = "a_name"]
          /\ UNCHANGED <<aidx, elapsed>>
     ELSE AudioEnd(c, "a_error")
  /\ UNCHANGED <<seqVars, libVars, mixer_busy, dir, relVars, playVars>>
  /\ UNCHANGED extraVars

\* selected_filename = self.audio_filenames[sound_index]; sound_index is not
\* used after it
AudioName(c) ==
  /\ apc[c] = "a_name"
  /\ IF aidx[c] <= Len(audio_filenames)
     THEN /\ apc' = [apc EXCEPT ![c] = "a_play"]
          /\ aidx' = [aidx EXCEPT ![c] = 0]
          /\ UNCHANGED elapsed
     ELSE AudioEnd(c, "a_error")
  /\ UNCHANGED <<seqVars, libVars, mixer_busy, dir, relVars, playVars>>
  /\ UNCHANGED extraVars

\* selected_sound.play()
AudioPlay(c) ==
  /\ apc[c] = "a_play"
  /\ mixer_busy' = TRUE
  /\ apc' = [apc EXCEPT ![c] = "a_wait"]
  /\ UNCHANGED <<seqVars, aidx, elapsed, libVars, dir, relVars, playVars>>
  /\ UNCHANGED extraVars

\* while pygame.mixer.get_busy(): time.sleep(0.1); then time.sleep(pause)
\* and the while test again
AudioWait(c) ==
  /\ apc[c] = "a_wait"
  /\ ~mixer_busy
  /\ IF LoopTest(elapsed[c]) = "a_pick"
     THEN /\ apc' = [apc EXCEPT ![c] = "a_pick"]
          /\ UNCHANGED <<aidx, elapsed>>
     ELSE AudioEnd(c, "a_completed")
  /\ UNCHANGED <<seqVars, libVars, mixer_busy, dir, relVars, playVars>>
  /\ UNCHANGED extraVars

\* the mixer finishes what it was playing
SoundEnds ==
  /\ mixer_busy
  /\ mixer_busy' = FALSE
  /\ UNCHANGED <<seqVars, audVars, libVars, dir, relVars, playVars>>
  /\ UNCHANGED extraVars

\* phase A summarised: play_audio_sequence runs on a library that no
\* request reloads, and ends
PlayAudioSequence(c) ==
  /\ apc[c] = "a_check"
  /\ AudioEnd(c, IF preloaded_sounds = <<>> THEN "a_noop" ELSE "a_completed")
  /\ UNCHANGED <<seqVars, libVars, mixer_busy, dir, relVars, playVars>>
  /\ UNCHANGED extraVars

AudioThread(c) ==
  \/ AudioCheck(c) \/ AudioPick(c) \/ AudioSound(c) \/ AudioName(c)
  \/ AudioPlay(c) \/ AudioWait(c)

\* ---- GET /reload: api_reload_sounds and load_audio_files -------------------
\* One client sends /reload requests, each after the answer to the one before.

\* ReloadBegin not reading the size of the library
ReloadBegin_ForgetsCount ==
  /\ lpc \in {"none", "done"}
  /\ lcount < MaxReloads
  /\ lcount' = lcount + 1
  /\ lprev' = 0
  /\ lpc' = "l_clear_s"
  /\ UNCHANGED <<seqVars, audVars, libVars, mixer_busy, dir, lrest, lresp, playVars>>
  /\ UNCHANGED extraVars

\* a request arrives:
\* previous_count = audio_manager.get_audio_info()["total_sounds"]
ReloadBegin ==
  /\ lpc \in {"none", "done"}
  /\ lcount < MaxReloads
  /\ lcount' = lcount + 1
  /\ lprev' = Len(preloaded_sounds)
  /\ lpc' = "l_clear_s"
  /\ UNCHANGED <<seqVars, audVars, libVars, mixer_busy, dir, lrest, lresp, playVars>>
  /\ UNCHANGED extraVars

\* LoadClearSounds leaving the old sounds in place
LoadClearSounds_KeepsOld ==
  /\ lpc = "l_clear_s"
  /\ lpc' = "l_clear_n"
  /\ UNCHANGED <<seqVars, audVars, libVars, mixer_busy, dir>>
  /\ UNCHANGED <<lrest, lprev, lresp, lcount, playVars>>
  /\ UNCHANGED extraVars

\* self.preloaded_sounds = []
LoadClearSounds ==
  /\ lpc = "l_clear_s"
  /\ preloaded_sounds' = <<>>
  /\ lpc' = "l_clear_n"
  /\ UNCHANGED <<seqVars, audVars, audio_filenames, mixer_busy, dir>>
  /\ UNCHANGED <<lrest, lprev, lresp, lcount, playVars>>
  /\ UNCHANGED extraVars

\* LoadClearNames leaving the old names in place
LoadClearNames_KeepsOld ==
  /\ lpc = "l_clear_n"
  /\ lpc' = "l_list"
  /\ UNCHANGED <<seqVars, audVars, libVars, mixer_busy, dir>>
  /\ UNCHANGED <<lrest, lprev, lresp, lcount, playVars>>
  /\ UNCHANGED extraVars

\* self.audio_filenames = []
LoadClearNames ==
  /\ lpc = "l_clear_n"
  /\ audio_filenames' = <<>>
  /\ lpc' = "l_list"
  /\ UNCHANGED <<seqVars, audVars, preloaded_sounds, mixer_busy, dir>>
  /\ UNCHANGED <<lrest, lprev, lresp, lcount, playVars>>
  /\ UNCHANGED extraVars

\* if not os.path.exists(AUDIO_FOLDER): return; os.listdir(AUDIO_FOLDER)
LoadList ==
  /\ lpc = "l_list"
  /\ IF dir.exists
     THEN /\ lpc' = "l_entry"
          /\ lrest' = dir.listing
     ELSE /\ lpc' = "l_resp"
          /\ UNCHANGED lrest
  /\ UNCHANGED <<seqVars, audVars, libVars, mixer_busy, dir, lprev, lresp, lcount, playVars>>
  /\ UNCHANGED extraVars

\* os.listdir(AUDIO_FOLDER) raises (the folder cannot be read): except
\* Exception as e prints the error and load_audio_files returns
LoadListFails ==
  /\ lpc = "l_list"
  /\ dir.exists
  /\ lpc' = "l_resp"
  /\ UNCHANGED <<seqVars, audVars, libVars, mixer_busy, dir>>
  /\ UNCHANGED <<lrest, lprev, lresp, lcount, playVars>>
  /\ UNCHANGED extraVars

\* LoadEntry giving up the rest of the listing when a file fails to decode
LoadEntry_AbortsOnFailure ==
  /\ lpc = "l_entry"
  /\ IF lrest = <<>>
     THEN /\ lpc' = "l_resp"
          /\ UNCHANGED <<lrest, preloaded_sounds>>
     ELSE IF ~IsAudioName(Head(lrest))
          THEN /\ lrest' = Tail(lrest)
               /\ UNCHANGED <<lpc, preloaded_sounds>>
          ELSE IF Decodes(Head(lrest))
               THEN /\ preloaded_sounds' = Append(preloaded_sounds, Head(lrest))
                    /\ lpc' = "l_name"
                    /\ UNCHANGED lrest
               ELSE /\ lpc' = "l_resp"
                    /\ lrest' = <<>>
                    /\ UNCHANGED preloaded_sounds
  /\ UNCHANGED <<seqVars, audVars, audio_filenames, mixer_busy, dir>>
  /\ UNCHANGED <<lprev, lresp, lcount, playVars>>
  /\ UNCHANGED extraVars

\* one turn of the for loop up to self.preloaded_sounds.append(sound);
\* pygame.error from pygame.mixer.Sound is caught and the loop continues
LoadEntry ==
  /\ lpc = "l_entry"
  /\ IF lrest = <<>>
     THEN /\ lpc' = "l_resp"
          /\ UNCHANGED <<lrest, preloaded_sounds>>
     ELSE IF IsAudioName(Head(lrest)) /\ Decodes(Head(lrest))
          THEN /\ preloaded_sounds' = Append(preloaded_sounds, Head(lrest))
               /\ lpc' = "l_name"
               /\ UNCHANGED lrest
          ELSE /\ lrest' = Tail(lrest)
               /\ UNCHANGED <<lpc, preloaded_sounds>>
  /\ UNCHANGED <<seqVars, audVars, audio_filenames, mixer_busy, dir>>
  /\ UNCHANGED <<lprev, lresp, lcount, playVars>>
  /\ UNCHANGED extraVars

\* self.audio_filenames.append(filename)
LoadAppendName ==
  /\ lpc = "l_name"
  /\ audio_filenames' = Append(audio_filenames, Head(lrest))
  /\ lrest' = Tail(lrest)
  /\ lpc' = "l_entry"
  /\ UNCHANGED <<seqVars, audVars, preloaded_sounds, mixer_busy, dir>>
  /\ UNCHANGED <<lprev, lresp, lcount, playVars>>
  /\ UNCHANGED extraVars

\* new_info = audio_manager.get_audio_info(); return jsonify({...})
ReloadRespond ==
  /\ lpc = "l_resp"
  /\ lresp' = [success |-> TRUE,
               previous_count |-> lprev,
               new_count |-> Len(preloaded_sounds),
               change |-> Len(preloaded_sounds) - lprev,
               loaded_files |-> audio_filenames]
  /\ lpc' = "done"
  /\ lprev' = 0
  /\ UNCHANGED <<seqVars, audVars, libVars, mixer_busy, dir, lrest, lcount, playVars>>
  /\ UNCHANGED extraVars

\* the texts of the exceptions that may reach the handler
ErrorTexts == {"Disk error"}

\* error_msg = f"Error reloading audio files: {e}"
ReloadErrorMessage(e) == <<"Error reloading audio files: ", e>>

\* ReloadRaises with no except clause in the handler
ReloadRaises_Propagates ==
  /\ lpc \in {"l_clear_s", "l_clear_n", "l_list", "l_resp"}
  /\ lpc' = "l_unhandled"
  /\ lprev' = 0
  /\ UNCHANGED <<seqVars, audVars, libVars, mixer_busy, dir, lrest, lresp, lcount, playVars>>
  /\ UNCHANGED extraVars

\* a statement of the handler's try block outside the try of
\* load_audio_files raises: except Exception as e answers success False
ReloadRaises ==
  /\ lpc \in {"l_clear_s", "l_clear_n", "l_list", "l_resp"}
  /\ \E e \in ErrorTexts :
       lresp' = [success |-> FALSE, message |-> ReloadErrorMessage(e)]
  /\ lpc' = "done"
  /\ lprev' = 0
  /\ UNCHANGED <<seqVars, audVars, libVars, mixer_busy, dir, lrest, lcount, playVars>>
  /\ UNCHANGED extraVars

\* the steps of a request that has arrived
ReloadSteps ==
  \/ LoadClearSounds \/ LoadClearNames \/ LoadList
  \/ LoadEntry \/ LoadAppendName \/ ReloadRespond \/ ReloadRaises

Reload == ReloadBegin \/ ReloadSteps

\* while a sequence runs the client sends at most MaxLibReloads requests
ReloadBeginLib == lcount < MaxLibReloads /\ ReloadBegin

ReloadLib == ReloadBeginLib \/ ReloadSteps

\* files are added to AUDIO_FOLDER or removed from it, or the folder itself
\* is, before the first /reload request
DirChanges ==
  /\ lpc = "none" /\ lcount = 0
  /\ dir' \in FolderChoices \ {dir}
  /\ UNCHANGED <<seqVars, audVars, libVars, mixer_busy, relVars, playVars>>
  /\ UNCHANGED extraVars

\* ---- GET /play: api_play_sound and play_random_sound -----------------------
\* One client sends /play requests, each after the answer to the one before.
PlayFailed == [success |-> FALSE]

\* play_random_sound returns r, which /play answers; its locals are gone
PlayEnd(r) ==
  /\ ppc' = "done"
  /\ presp' = r
  /\ pidx' = 0
  /\ pname' = <<>>
  /\ psound' = <<>>

\* if not self.preloaded_sounds: return {"success": False, ...}
PlayCheck ==
  /\ ppc \in {"none", "done"}
  /\ pcount < MaxPlays
  /\ pcount' = pcount + 1
  /\ IF preloaded_sounds = <<>>
     THEN PlayEnd(PlayFailed)
     ELSE /\ ppc' = "p_pick"
          /\ presp' = NoResponse
          /\ UNCHANGED <<pidx, pname, psound>>
  /\ UNCHANGED <<seqVars, audVars, libVars, mixer_busy, dir, relVars>>
  /\ UNCHANGED extraVars

\* sound_index = random.randint(0, len(self.preloaded_sounds) - 1); the
\* exceptions of the try block are answered with success False
PlayPick ==
  /\ ppc = "p_pick"
  /\ IF Len(preloaded_sounds) = 0
     THEN PlayEnd(PlayFailed)
     ELSE /\ \E i \in 1..Len(preloaded_sounds) : pidx' = i
          /\ ppc' = "p_sound"
          /\ UNCHANGED <<pname, presp, psound>>
  /\ UNCHANGED <<seqVars, audVars, libVars, mixer_busy, dir, relVars, pcount>>
  /\ UNCHANGED extraVars

\* selected_sound = self.preloaded_sounds[sound_index]
PlaySound ==
  /\ ppc = "p_sound"
  /\ IF pidx <= Len(preloaded_sounds)
     THEN /\ ppc' = "p_name"
          /\ psound' = preloaded_sounds[pidx]
          /\ UNCHANGED <<pidx, pname, presp>>
     ELSE PlayEnd(PlayFailed)
  /\ UNCHANGED <<seqVars, audVars, libVars, mixer_busy, dir, relVars, pcount>>
  /\ UNCHANGED extraVars

\* PlayName taking the first name whatever the index
PlayName_FirstName ==
  /\ ppc = "p_name"
  /\ IF pidx <= Len(audio_filenames)
     THEN /\ ppc' = "p_play"
          /\ pname' = audio_filenames[1]
          /\ pidx' = 0
          /\ UNCHANGED <<presp, psound>>
     ELSE PlayEnd(PlayFailed)
  /\ UNCHANGED <<seqVars, audVars, libVars, mixer_busy, dir, relVars, pcount>>
  /\ UNCHANGED extraVars

\* selected_filename = self.audio_filenames[sound_index]
PlayName ==
  /\ ppc = "p_name"
  /\ IF pidx <= Len(audio_filenames)
     THEN /\ ppc' = "p_play"
          /\ pname' = audio_filenames[pidx]
          /\ pidx' = 0
          /\ UNCHANGED <<presp, psound>>
     ELSE PlayEnd(PlayFailed)
  /\ UNCHANGED <<seqVars, audVars, libVars, mixer_busy, dir, relVars, pcount>>
  /\ UNCHANGED extraVars

\* selected_sound.play(); selected_sound is not used after it
\* PlayPlay switching the indicator on as well
PlayPlay_LightsLed ==
  /\ ppc = "p_play"
  /\ mixer_busy' = TRUE
  /\ led' = TRUE
  /\ ppc' = "p_ret"
  /\ psound' = <<>>
  /\ UNCHANGED <<callback_in_progress, hpc, pc, exc, events, spc, delay, slept>>
  /\ UNCHANGED <<audVars, libVars, dir, relVars, pidx, pname, presp, pcount>>
  /\ UNCHANGED extraVars

PlayPlay ==
  /\ ppc = "p_play"
  /\ mixer_busy' = TRUE
  /\ ppc' = "p_ret"
  /\ psound' = <<>>
  /\ UNCHANGED <<seqVars, audVars, libVars, dir, relVars, pidx, pname, presp, pcount>>
  /\ UNCHANGED extraVars

\* return {"success": True, ..., "total_sounds": len(self.preloaded_sounds)}
PlayReturn ==
  /\ ppc = "p_ret"
  /\ PlayEnd([success |-> TRUE, filename |-> pname,
              total_sounds |-> Len(preloaded_sounds)])
  /\ UNCHANGED <<seqVars, audVars, libVars, mixer_busy, dir, relVars, pcount>>
  /\ UNCHANGED extraVars

Play ==
  \/ PlayCheck \/ PlayPick \/ PlaySound \/ PlayName \/ PlayPlay \/ PlayReturn

\* ---- GET /status: api_status ------------------------------------------------
\* One client sends /status requests, each after the answer to the one before.

\* audio_info = audio_manager.get_audio_info()
StatusInfo ==
  /\ stpc \in {"none", "done"}
  /\ stinfo' = Len(preloaded_sounds)
  /\ stpc' = "s_resp"
  /\ UNCHANGED <<seqVars, audVars, libVars, mixer_busy, dir, relVars, playVars>>
  /\ UNCHANGED <<stresp, soundsVars, mainVars, servoVars>>

\* StatusRespond reporting sounds as loaded whatever their number
StatusRespond_AlwaysLoaded ==
  /\ stpc = "s_resp"
  /\ stresp' = [status |-> "running",
                callback_in_progress |-> callback_in_progress,
                total_sounds |-> stinfo,
                sounds_loaded |-> TRUE]
  /\ stpc' = "done"
  /\ stinfo' = 0
  /\ UNCHANGED <<seqVars, audVars, libVars, mixer_busy, dir, relVars, playVars>>
  /\ UNCHANGED <<soundsVars, mainVars, servoVars>>

\* return jsonify({... trickster_controller.is_busy() ...})
StatusRespond ==
  /\ stpc = "s_resp"
  /\ stresp' = [status |-> "running",
                callback_in_progress |-> callback_in_progress,
                total_sounds |-> stinfo,
                sounds_loaded |-> stinfo > 0]
  /\ stpc' = "done"
  /\ stinfo' = 0
  /\ UNCHANGED <<seqVars, audVars, libVars, mixer_busy, dir, relVars, playVars>>
  /\ UNCHANGED <<soundsVars, mainVars, servoVars>>

Status == StatusInfo \/ StatusRespond

\* ---- GET /sounds ------------------------------------------------------------
\* audio_info = audio_manager.get_audio_info()
SoundsInfo ==
  /\ sndpc \in {"none", "done"}
  /\ sndinfo' = [total_sounds |-> Len(preloaded_sounds), sounds |-> audio_filenames]
  /\ sndpc' = "n_resp"
  /\ UNCHANGED <<seqVars, audVars, libVars, mixer_busy, dir, relVars, playVars>>
  /\ UNCHANGED <<statVars, sndresp, mainVars, servoVars>>

\* return jsonify({"total_sounds": ..., "sounds": ...})
SoundsRespond ==
  /\ sndpc = "n_resp"
  /\ sndresp' = [total_sounds |-> sndinfo.total_sounds, sounds |-> sndinfo.sounds]
  /\ sndpc' = "done"
  /\ sndinfo' = NoInfo
  /\ UNCHANGED <<seqVars, audVars, libVars, mixer_busy, dir, relVars, playVars>>
  /\ UNCHANGED <<statVars, mainVars, servoVars>>

Sounds == SoundsInfo \/ SoundsRespond

\* ---- main() -----------------------------------------------------------------
\* the positions of main() inside its try block
InTry == {"start", "monitor", "run", "serving"}
MainEnded == {"returned", "raised"}

\* a step of the try block raises an exception other than KeyboardInterrupt:
\* no except clause matches, the finally clause runs with it in flight
MainFails == mpc' = "cleanup_exc"

\* trickster_controller.initialize(): load_audio_files() and
\* register_button_callback()
MainInitialize ==
  /\ mpc = "start"
  /\ \/ /\ mpc' = "monitor"
        /\ preloaded_sounds' = Loaded(dir)
        /\ audio_filenames' = Loaded(dir)
     \/ /\ MainFails
        /\ UNCHANGED libVars
  /\ UNCHANGED <<seqVars, audVars, mixer_busy, dir, relVars, playVars>>
  /\ UNCHANGED <<statVars, soundsVars, cleanups, app_runs, servoVars>>

\* gpio_thread = trickster_controller.start_monitoring()
MainStartMonitoring ==
  /\ mpc = "monitor"
  /\ \/ mpc' = "run"
     \/ MainFails
  /\ UNCHANGED <<seqVars, audVars, libVars, mixer_busy, dir, relVars, playVars>>
  /\ UNCHANGED <<statVars, soundsVars, cleanups, app_runs, servoVars>>

\* app.run(host=API_HOST, port=API_PORT, debug=API_DEBUG) is called: the
\* server starts serving, or fails to start
MainRun ==
  /\ mpc = "run"
  /\ app_runs' = app_runs + 1
  /\ \/ mpc' = "serving"
     \/ MainFails
  /\ UNCHANGED <<seqVars, audVars, libVars, mixer_busy, dir, relVars, playVars>>
  /\ UNCHANGED <<statVars, soundsVars, cleanups, servoVars>>

\* app.run() returns, or raises
MainServerEnds ==
  /\ mpc = "serving"
  /\ \/ mpc' = "cleanup"
     \/ MainFails
  /\ UNCHANGED <<seqVars, audVars, libVars, mixer_busy, dir, relVars, playVars>>
  /\ UNCHANGED <<statVars, soundsVars, cleanups, app_runs, servoVars>>

\* Ctrl+C inside the try block: except KeyboardInterrupt
MainInterrupt ==
  /\ mpc \in InTry
  /\ mpc' = "cleanup"
  /\ UNCHANGED <<seqVars, audVars, libVars, mixer_busy, dir, relVars, playVars>>
  /\ UNCHANGED <<statVars, soundsVars, cleanups, app_runs, servoVars>>

\* MainCleanup not calling cleanup() after an exception
MainCleanup_OnlyOnNormalExit ==
  /\ mpc \in {"cleanup", "cleanup_exc"}
  /\ IF mpc = "cleanup"
     THEN /\ cleanups' = cleanups + 1
          /\ duty' = 0
          /\ mpc' = "returned"
     ELSE /\ mpc' = "raised"
          /\ UNCHANGED <<cleanups, duty>>
  /\ UNCHANGED <<seqVars, audVars, libVars, mixer_busy, dir, relVars, playVars>>
  /\ UNCHANGED <<statVars, soundsVars, app_runs, changes, rpc, rangle, vpc, vangle>>

\* finally: trickster_controller.cleanup(), which stops the PWM; then the
\* exception in flight, if any, or the one cleanup() raised, leaves main()
MainCleanup ==
  /\ mpc \in {"cleanup", "cleanup_exc"}
  /\ cleanups' = cleanups + 1
  /\ \/ /\ duty' = 0
        /\ mpc' = IF mpc = "cleanup" THEN "returned" ELSE "raised"
     \/ /\ mpc' = "raised"
        /\ UNCHANGED duty
  /\ UNCHANGED <<seqVars, audVars, libVars, mixer_busy, dir, relVars, playVars>>
  /\ UNCHANGED <<statVars, soundsVars, app_runs, changes, rpc, rangle, vpc, vangle>>

Main ==
  \/ MainInitialize \/ MainStartMonitoring \/ MainRun \/ MainServerEnds
  \/ MainInterrupt \/ MainCleanup

\* the button is armed once initialize() has registered the callback
PressArmed == mpc \in {"monitor", "run", "serving"} /\ Press(1)

\* /status is answered while the server runs
StatusServed == mpc = "serving" /\ Status

\* ---- time ------------------------------------------------------------------
Sleeping(c) == pc[c] = "sleep" /\ slept[c] < delay[c]
Timing(c) == apc[c] \in (AudioRunning \ {"a_check"}) /\ elapsed[c] < TARGET_AUDIO_DURATION

Tick ==
  /\ \E c \in Callers : Sleeping(c) \/ Timing(c)
  /\ slept' = [c \in Callers |->
                 IF Sleeping(c) THEN Min(slept[c] + TickStep, delay[c]) ELSE slept[c]]
  /\ elapsed' = [c \in Callers |->
                   IF Timing(c) THEN Min(elapsed[c] + TickStep, TARGET_AUDIO_DURATION)
                   ELSE elapsed[c]]
  /\ UNCHANGED <<callback_in_progress, led, hpc, pc, exc, events, spc, delay>>
  /\ UNCHANGED <<apc, aidx, libVars, mixer_busy, dir, relVars, playVars>>
  /\ UNCHANGED extraVars

Callback(c) ==
  \/ CheckBusy(c) \/ SetBusy(c) \/ LedOn(c) \/ StartAudio(c) \/ Sleep(c)
  \/ StartServo(c) \/ JoinAudio(c) \/ JoinServo(c) \/ FinLed(c) \/ FinFlag(c)
  \/ RotateServo(c)

Next ==
  \/ \E c \in Callers :
       Press(c) \/ TriggerCheck(c) \/ TriggerSpawn(c) \/ Callback(c)
         \/ PlayAudioSequence(c)
  \/ Tick

Spec == Init /\ [][Next]_vars

\* one sequence, started by the button, with /play requests and at most
\* MaxLibReloads /reload requests
NextLib ==
  \/ \E c \in {1} : Press(c) \/ Callback(c) \/ AudioThread(c)
  \/ ReloadLib
  \/ Play
  \/ SoundEnds
  \/ Tick

SpecLib == Init /\ [][NextLib]_vars

\* Every thread that can take a step eventually takes one, time passes and
\* the mixer finishes each sound; the button is under no obligation.
Fairness ==
  /\ \A c \in Callers :
       WF_vars(Callback(c)) /\ WF_vars(RotateServo(c)) /\ WF_vars(AudioThread(c))
  /\ WF_vars(ReloadLib) /\ WF_vars(Play)
  /\ WF_vars(SoundEnds) /\ WF_vars(Tick)

SpecLive == Init /\ [][NextLib]_vars /\ Fairness

\* /status requests while one sequence runs and the library is reloaded
NextStatus ==
  \/ \E c \in {1} : Press(c) \/ Callback(c) \/ PlayAudioSequence(c)
  \/ Tick
  \/ ReloadLib
  \/ Status

SpecStatus == Init /\ [][NextStatus]_vars

\* /reload and /play requests served one at a time: the library is not
\* reloaded while play_random_sound runs
ReloadAlone == ppc \notin InPlay /\ Reload

PlayAlone == lpc \notin InReload /\ Play

NextPlay ==
  \/ DirChanges
  \/ ReloadAlone
  \/ PlayAlone
  \/ SoundEnds

SpecPlay == Init /\ [][NextPlay]_vars

\* main() is called on the constructed objects
InitMain ==
  /\ Constructed
  /\ dir \in DirChoices
  /\ preloaded_sounds = <<>>
  /\ audio_filenames = <<>>
  /\ mpc = "start"
  /\ app_runs = 0

\* main() from its call to its end, with one button sequence and /status
\* requests while it is up
NextMain ==
  \/ Main
  \/ PressArmed
  \/ \E c \in {1} : Callback(c) \/ PlayAudioSequence(c)
  \/ Tick
  \/ StatusServed

SpecMain == InitMain /\ [][NextMain]_vars

\* set_servo_angle calls, one after another
NextAngle == SetServoAngle

SpecAngle == Init /\ [][NextAngle]_vars

\* one button sequence with the sweep of its servo thread step by step
NextSweep ==
  \/ \E c \in {1} :
       \/ Press(c)
       \/ CheckBusy(c) \/ SetBusy(c) \/ LedOn(c) \/ StartAudio(c) \/ Sleep(c)
       \/ StartServo(c) \/ JoinAudio(c) \/ JoinServo(c) \/ FinLed(c) \/ FinFlag(c)
       \/ RotateSteps(c)
       \/ PlayAudioSequence(c)
  \/ Tick

SpecSweep == Init /\ [][NextSweep]_vars

\* no request of the read and play handlers is in progress
NoRequest ==
  /\ lpc \notin InReload /\ ppc \notin InPlay
  /\ stpc # "s_resp" /\ sndpc # "n_resp"

\* a client sends its requests one after the other
OneRequest(pos, busy) == pos \in busy \/ NoRequest

ReloadOne == OneRequest(lpc, InReload) /\ ReloadLib
PlayOne == OneRequest(ppc, InPlay) /\ Play
StatusOne == OneRequest(stpc, {"s_resp"}) /\ Status
SoundsOne == OneRequest(sndpc, {"n_resp"}) /\ Sounds

\* one button sequence while a client calls /play, /status, /sounds and
\* /reload
NextFrame ==
  \/ \E c \in {1} : Press(c) \/ Callback(c) \/ PlayAudioSequence(c)
  \/ Tick
  \/ SoundEnds
  \/ ReloadOne \/ PlayOne \/ StatusOne \/ SoundsOne

SpecFrame == Init /\ [][NextFrame]_vars

\* /reload requests alone, on a folder whose listing may fail
NextFault == DirChanges \/ Reload \/ LoadListFails

SpecFault == Init /\ [][NextFault]_vars

\* /reload requests alone, on a directory that has changed since startup
NextLoad ==
  \/ DirChanges
  \/ Reload

SpecLoad == Init /\ [][NextLoad]_vars

\* ==== the claims ============================================================

\* C1: at most one button_callback invocation is past the busy check at any
\* time; two near-simultaneous triggers never both pass the check-and-set.
C1_MutualExclusion ==
  Cardinality({c \in Callers : pc[c] \in PastCheck}) <= 1

\* C2: once every invocation that started a sequence has returned control to
\* its caller (normally or by a raise), callback_in_progress is false.
C2_NotBusyWhenNoSequenceRuns ==
  (\A c \in Callers : pc[c] \notin InSequence) => ~callback_in_progress

\* C3: while the audio thread or the servo thread of a sequence is still
\* running, callback_in_progress is true.
C3_PhaseRunningImpliesBusy ==
  \A c \in Callers :
    (apc[c] \in AudioRunning \/ spc[c] = "running") => callback_in_progress

\* C4: a fault raised inside a running sequence is contained: button_callback
\* never hands an exception to its caller.
C4_FaultContained ==
  \A c \in Callers : pc[c] # "raised"

\* C5: the release step always goes on to the flag reset, whether or not its
\* indicator-OFF call fails.
C5_ReleaseResetsFlag ==
  [][\A c \in Callers :
       (pc[c] = "fin_led" /\ pc'[c] # "fin_led") => pc'[c] = "fin_flag"]_vars

\* C6: an invocation that observes callback_in_progress true returns at once
\* and stays returned, and its step changes neither the flag, the LED, a
\* phase thread, the sound library nor the mixer.
C6_BusyTriggerHasNoEffect ==
  [][\A c \in Callers :
       /\ (pc[c] = "check" /\ callback_in_progress) => pc'[c] \in {"check", "ignored"}
       /\ (pc[c] = "check" /\ pc'[c] = "ignored") =>
            UNCHANGED <<callback_in_progress, led, apc, spc, events,
                        preloaded_sounds, audio_filenames, mixer_busy>>
       /\ pc[c] = "ignored" =>
            /\ pc'[c] = "ignored"
            /\ apc'[c] = "none" /\ spc'[c] = "none" /\ events'[c] = <<>>]_vars

\* C6 witness: a trigger was ignored while another trigger's sequence runs
\* with the flag set and the LED on.
C6_Witness ==
  \E c, d \in Callers :
    /\ pc[c] = "ignored"
    /\ pc[d] \in InSequence /\ callback_in_progress /\ led

\* C7: a /trigger request that arrives after another request was answered
\* success:true and before that request's sequence has finished is answered
\* success:false ("already in progress").
C7_SecondTriggerRejected ==
  [][\A c, d \in Callers :
       (c # d /\ hpc[d] = "ok" /\ pc[d] \notin Finished /\ hpc[c] = "none")
         => hpc'[c] \in {"none", "busy", "button"}]_vars

\* the order of the steps of a sequence in which nothing raises
SequenceOrder ==
  <<"busy_on", "led_on", "audio_start", "servo_start",
    "audio_joined", "servo_joined", "led_off", "busy_off">>

IsPrefix(s, t) == Len(s) <= Len(t) /\ SubSeq(t, 1, Len(s)) = s

Occurred(c, e) == \E i \in 1..Len(events[c]) : events[c][i] = e

\* C8: in a sequence in which nothing raises the steps occur in the order
\* busy set, indicator ON, audio started, servo started, both joined,
\* indicator OFF, busy reset; a join is passed only when its phase has ended.
C8_SequenceOrder ==
  \A c \in Callers :
    /\ IsPrefix(events[c], SequenceOrder)
    /\ pc[c] = "returned" => events[c] = SequenceOrder
    /\ Occurred(c, "audio_joined") => apc[c] \in AudioEnded
    /\ Occurred(c, "servo_joined") => spc[c] = "done"
    /\ Occurred(c, "audio_start") <=> (~exc[c] /\ apc[c] # "none")
    /\ Occurred(c, "servo_start") <=> (~exc[c] /\ spc[c] # "none")

\* C8 witness: a sequence ran to its normal return.
C8_Witness ==
  \E c \in Callers : pc[c] = "returned" /\ events[c] = SequenceOrder

\* C9: the audio phase is started before the delay begins; the servo phase
\* is started only from the step after the sleep, which is left only after
\* the drawn delay has passed, and not by waiting for the audio phase.
C9_AudioThenDelayThenServo ==
  [][\A c \in Callers :
       /\ pc'[c] = "sleep" => apc'[c] # "none"
       /\ (pc[c] = "sleep" /\ pc'[c] = "start_servo") =>
            (delay[c] >= MIN_DELAY /\ slept[c] >= delay[c])
       /\ (spc[c] = "none" /\ spc'[c] # "none") =>
            (pc[c] = "start_servo" /\ apc[c] # "none")]_vars

\* C9 witness: the two phases overlap: the servo sweeps while the audio
\* thread is still in its loop, short of the target duration.
C9_Witness ==
  \E c \in Callers :
    /\ spc[c] = "running"
    /\ apc[c] \in {"a_pick", "a_sound", "a_name", "a_play", "a_wait"}
    /\ elapsed[c] < TARGET_AUDIO_DURATION

\* C10: a play_audio_sequence that found the library non-empty does not end
\* before the elapsed time has reached TARGET_AUDIO_DURATION, whatever the
\* /play and /reload requests do meanwhile.
C10_AudioRunsToTarget ==
  [][\A c \in Callers :
       (apc[c] \in (AudioRunning \ {"a_check"}) /\ apc'[c] \in AudioEnded)
         => elapsed[c] >= TARGET_AUDIO_DURATION]_vars

\* C11: when play_audio_sequence finds the library empty it ends at once as a
\* no-op, playing nothing; the sequence still leaves its sleep only after
\* the drawn delay, starts the servo sweep, and returns only with the sweep
\* done and callback_in_progress reset.
C11_EmptyLibraryNoOp ==
  [][\A c \in Callers :
       /\ (apc[c] = "a_check" /\ preloaded_sounds = <<>> /\ apc'[c] # "a_check") =>
            (apc'[c] = "a_noop" /\ mixer_busy' = mixer_busy)
       /\ (apc[c] = "a_noop" /\ pc[c] = "sleep" /\ pc'[c] = "start_servo") =>
            (delay[c] >= MIN_DELAY /\ slept[c] >= delay[c])
       /\ (apc[c] = "a_noop" /\ pc[c] = "start_servo" /\ pc'[c] = "join_audio") =>
            spc'[c] = "running"
       /\ (apc[c] = "a_noop" /\ pc[c] # "returned" /\ pc'[c] = "returned") =>
            (spc[c] = "done" /\ ~callback_in_progress')]_vars

\* C11 witness: a sequence whose audio phase was a no-op on an empty library
\* has returned after its servo sweep, with the flag reset and nothing
\* playing.
C11_Witness ==
  \E c \in Callers :
    /\ apc[c] = "a_noop" /\ pc[c] = "returned" /\ spc[c] = "done"
    /\ events[c] = SequenceOrder
    /\ ~callback_in_progress /\ ~mixer_busy /\ preloaded_sounds = <<>>

\* C12: under fair scheduling, with every playback, pause, delay and servo
\* step finishing, callback_in_progress once true eventually becomes false
\* again, whatever faults occur and whatever /play and /reload do.
C12_ReturnsToIdle ==
  callback_in_progress ~> ~callback_in_progress

\* the reads of the library that a pick consists of are still to be made
Picking ==
  \/ ppc \in {"p_pick", "p_sound", "p_name"}
  \/ \E c \in Callers : apc[c] \in {"a_pick", "a_sound", "a_name"}

\* C13: a pick of play_random_sound or play_audio_sequence that runs
\* concurrently with load_audio_files reads the complete library of before
\* the reload or the complete one of after it (here both are the load of
\* the unchanged directory), never an emptied or partly rebuilt one.
C13_ReloadAtomicForReaders ==
  Picking => (preloaded_sounds = Loaded(dir) /\ audio_filenames = Loaded(dir))

\* ".wav" and ".mp3" in every mix of upper and lower case
AudioSuffixes ==
  {<<".", w, a, v>> : w \in {"w", "W"}, a \in {"a", "A"}, v \in {"v", "V"}}
    \cup {<<".", m, p, "3">> : m \in {"m", "M"}, p \in {"p", "P"}}

\* the name ends, case-insensitively, in .wav or .mp3 and the file decodes
RecognizedAndDecodes(f) ==
  /\ \E suf \in AudioSuffixes : EndsWith(f, suf)
  /\ Decodes(f)

\* what os.listdir returns, nothing for a folder that does not exist
Listing == IF dir.exists THEN dir.listing ELSE <<>>

\* load_audio_files has run to its end and the directory is as it read it
LoadCompleted ==
  IF lpc = "done" THEN lresp.success ELSE lpc = "l_resp"

\* C14: after load_audio_files, audio_filenames is exactly the subsequence
\* of the listing, in listing order, of the names that end case-insensitively
\* in .wav or .mp3 and decode; a.wav, b.mp3, c.WAV, d.txt gives a.wav,
\* b.mp3, c.WAV.
C14_FilenamesAreAudioSubsequence ==
  LoadCompleted =>
    /\ audio_filenames = SelectSeq(Listing, RecognizedAndDecodes)
    /\ Listing = <<A_WAV, B_MP3, C_WAV, D_TXT>> =>
         audio_filenames = <<A_WAV, B_MP3, C_WAV>>

\* C14 witness: a load of a.wav, b.mp3, c.WAV, d.txt has ended with the
\* three audio names.
C14_Witness ==
  /\ LoadCompleted
  /\ Listing = <<A_WAV, B_MP3, C_WAV, D_TXT>>
  /\ Len(audio_filenames) = 3 /\ audio_filenames[3] = C_WAV

\* the entries of a sequence
Range(q) == {q[i] : i \in 1..Len(q)}

\* C15: an entry whose decode fails is skipped, without retry and without
\* ending the load: the loop goes on to the next entry with the library as
\* it was, and when the load ends every recognized entry of the listing that
\* decodes, before or after the failing one, is in the library and the
\* failing one is not; load_audio_files then returns normally.
C15_DecodeFailureSkipped ==
  [][/\ (lpc = "l_entry" /\ lrest # <<>> /\ Head(lrest) \in CorruptFiles) =>
          /\ lpc' = "l_entry" /\ lrest' = Tail(lrest)
          /\ UNCHANGED <<preloaded_sounds, audio_filenames>>
     /\ (lpc \in {"l_entry", "l_name"} /\ lpc' \notin {"l_entry", "l_name"}) =>
          /\ lpc' = "l_resp"
          /\ \A f \in Range(Listing) :
               /\ RecognizedAndDecodes(f) =>
                    f \in Range(preloaded_sounds') \cap Range(audio_filenames')
               /\ f \in CorruptFiles =>
                    f \notin Range(preloaded_sounds') \cup Range(audio_filenames')]_vars

\* C15 witness: the load of a.wav, x.wav, b.mp3, where x.wav does not decode,
\* has ended with a.wav and b.mp3.
C15_Witness ==
  /\ LoadCompleted
  /\ Listing = <<A_WAV, X_WAV, B_MP3>>
  /\ preloaded_sounds = <<A_WAV, B_MP3>> /\ audio_filenames = <<A_WAV, B_MP3>>

\* C16: load_audio_files on a folder that does not exist returns without
\* failing and leaves preloaded_sounds and audio_filenames empty, whatever
\* they held before; /reload then answers success with new_count 0.
C16_MissingFolderLoadsNothing ==
  (LoadCompleted /\ ~dir.exists) =>
    /\ preloaded_sounds = <<>> /\ audio_filenames = <<>>
    /\ lpc = "done" => (lresp.new_count = 0 /\ lresp.loaded_files = <<>>)

\* C16 witness: a library of two sounds was reloaded after the folder had
\* gone, and /reload answered success with no sound left.
C16_Witness ==
  /\ lpc = "done" /\ ~dir.exists
  /\ lresp.success /\ lresp.previous_count = 2 /\ lresp.new_count = 0
  /\ preloaded_sounds = <<>> /\ audio_filenames = <<>>

\* C17: a completed load_audio_files leaves exactly the assets of the
\* current listing, none of the previous load; a second load over the
\* unchanged directory ends with the library the first one answered.
C17_ReloadReplaces ==
  LoadCompleted =>
    /\ preloaded_sounds = LoadAll(Listing)
    /\ audio_filenames = LoadAll(Listing)
    /\ (lpc = "l_resp" /\ lcount = 2 /\ lresp # NoResponse) =>
         (lresp.success =>
            /\ audio_filenames = lresp.loaded_files
            /\ Len(preloaded_sounds) = lresp.new_count)

\* C17 witness: the first reload replaced a.wav, b.mp3 by c.WAV alone, and
\* the second load over the same directory has ended with c.WAV alone again.
C17_Witness ==
  /\ lpc = "l_resp" /\ lcount = 2 /\ lresp # NoResponse
  /\ lresp.success /\ lresp.previous_count = 2 /\ lresp.loaded_files = <<C_WAV>>
  /\ preloaded_sounds = <<C_WAV>> /\ audio_filenames = <<C_WAV>>

\* C18: a successful /reload reports previous_count as the size of the
\* library before the reload, new_count as its size after it and change as
\* their difference; with k more valid files in the directory than the
\* library held, change is k and new_count is previous_count + k.
C18_ReloadReportsCounts ==
  [][/\ (lpc \in {"none", "done"} /\ lpc' = "l_clear_s") =>
          lprev' = Len(preloaded_sounds)
     /\ (lpc = "l_resp" /\ lpc' = "done") =>
          (lresp'.success =>
             /\ lresp'.previous_count = lprev
             /\ lresp'.new_count = Len(preloaded_sounds)
             /\ lresp'.change = lresp'.new_count - lresp'.previous_count
             /\ \A k \in 0..4 :
                  Len(SelectSeq(Listing, RecognizedAndDecodes)) = lprev + k =>
                    /\ lresp'.change = k
                    /\ lresp'.new_count = lresp'.previous_count + k)]_vars

\* C18 witness: the directory of a.wav, b.mp3 gained c.WAV and e.Mp3 and
\* /reload answered previous_count 2, new_count 4, change 2.
C18_Witness ==
  /\ lpc = "done" /\ lresp.success
  /\ Listing = <<A_WAV, B_MP3, C_WAV, E_MP3>>
  /\ lresp.previous_count = 2 /\ lresp.new_count = 4 /\ lresp.change = 2

\* C19: when the reload raises inside /reload the handler still answers:
\* a request ends only with an answer, which is either the success answer
\* given after the load or success false with a message made of "Error
\* reloading audio files" and the text of the error; no exception leaves
\* the handler.
C19_ReloadErrorAnswered ==
  [][(lpc \in InReload /\ lpc' \notin InReload) =>
       /\ lpc' = "done"
       /\ lresp' # NoResponse
       /\ IF lresp'.success
          THEN lpc = "l_resp"
          ELSE /\ lresp'.message[1] = "Error reloading audio files: "
               /\ lresp'.message[2] \in ErrorTexts]_vars

\* C19 witness: a /reload was answered success false with the error text.
C19_Witness ==
  /\ lpc = "done" /\ lresp # NoResponse
  /\ ~lresp.success
  /\ lresp.message = <<"Error reloading audio files: ", "Disk error">>

\* C20: every route answers an internal failure with a 200 response that
\* says success false and embeds the error text; no request ends with an
\* unhandled error.
C20_NoUnhandledError ==
  /\ \A c \in Callers : hpc[c] # "unhandled"
  /\ lpc # "l_unhandled"

\* C21: /status reports callback_in_progress as the busy flag is when the
\* answer is made, total_sounds as the size of the library it read, and
\* sounds_loaded true exactly when total_sounds > 0; with no sound loaded it
\* answers sounds_loaded false and total_sounds 0.
C21_StatusReportsState ==
  [][/\ (stpc # "s_resp" /\ stpc' = "s_resp") => stinfo' = Len(preloaded_sounds)
     /\ (stpc = "s_resp" /\ stpc' = "done") =>
          /\ stresp'.callback_in_progress = callback_in_progress
          /\ stresp'.total_sounds = stinfo
          /\ stresp'.sounds_loaded = (stresp'.total_sounds > 0)
          /\ preloaded_sounds = <<>> /\ stinfo = 0 =>
               (stresp'.sounds_loaded = FALSE /\ stresp'.total_sounds = 0)]_vars

\* C21 witness: /status answered busy, with no sound loaded.
C21_Witness ==
  /\ stpc = "done" /\ stresp # NoResponse
  /\ stresp.callback_in_progress /\ callback_in_progress
  /\ stresp.total_sounds = 0 /\ ~stresp.sounds_loaded
  /\ preloaded_sounds = <<>>

C23_TriggerFireAndForget ==
  [][\A c \in Callers :
       /\ (hpc[c] = "spawn" /\ hpc'[c] = "ok") =>
            /\ pc[c] = "idle" /\ pc'[c] = "check"
            /\ apc'[c] = "none" /\ spc'[c] = "none" /\ events'[c] = <<>>
            /\ UNCHANGED <<callback_in_progress, led>>
       /\ hpc[c] = "ok" => hpc'[c] = "ok"]_vars

\* C23 witness: /trigger has answered success:true and the sequence it
\* started is still in its delay, the servo sweep not yet started.
C23_Witness ==
  \E c \in Callers :
    /\ hpc[c] = "ok" /\ pc[c] = "sleep" /\ slept[c] < delay[c]
    /\ spc[c] = "none" /\ callback_in_progress

\* C24: on every path out of main() (server returned, KeyboardInterrupt,
\* initialize failed, server failed to start) trickster_controller.cleanup()
\* has been called exactly once, and never before main() reaches its
\* finally clause.
C24_CleanupExactlyOnce ==
  /\ cleanups <= 1
  /\ mpc \in MainEnded => cleanups = 1
  /\ mpc \in InTry => cleanups = 0

\* C24 witness: main() has ended after the server failed to start, with
\* cleanup() called once.
C24_Witness ==
  /\ mpc = "raised" /\ cleanups = 1 /\ app_runs = 1 /\ stresp = NoResponse
  /\ hpc[1] = "button"

\* C25: main() never lets an exception reach its caller: whatever fails
\* (initialize, the server start, cleanup itself), main() returns normally.
C25_NeverPropagates == mpc # "raised"

\* C26: when start_monitoring() fails, main() still goes on to the app.run
\* call: from the start_monitoring call, unless interrupted by Ctrl+C, the
\* next position of main() is the app.run call.
C26_MonitoringFailureStillServes ==
  [][(mpc = "monitor" /\ mpc' \notin {"monitor", "cleanup"}) => mpc' = "run"]_vars

\* C27: set_servo_angle applies the duty cycle 2 + angle/18 for every angle
\* in 0..180: duty 2 at angle 0, 7 at angle 90 and 12 at angle 180 (the duty
\* cycle is held in eighteenths).
C27_DutyLinear ==
  (vpc \in {"v_sleep", "v_zero"} /\ vangle \in 0..180) =>
    /\ duty = 2 * 18 + vangle
    /\ vangle = 0 => duty = 2 * 18
    /\ vangle = 90 => duty = 7 * 18
    /\ vangle = 180 => duty = 12 * 18

\* C27 witness: set_servo_angle(90) holds the duty cycle 7.
C27_Witness == vpc = "v_sleep" /\ vangle = 90 /\ duty = 126

\* C28: a set_servo_angle call applies the computed duty cycle, then holds,
\* then sets the duty cycle to 0, in that order: the duty cycle is not
\* touched during the hold and is 0 when the call returns.
C28_ApplyHoldZero ==
  [][/\ vpc \in {"none", "done"} => (vpc' = "v_sleep" /\ duty' = 36 + vangle')
     /\ vpc = "v_sleep" => (vpc' = "v_zero" /\ duty' = duty /\ changes' = changes)
     /\ vpc = "v_zero" => (vpc' = "done" /\ duty' = 0)
     /\ vpc' = "done" => duty' = 0]_vars

\* C28 witness: a set_servo_angle call has returned after two duty-cycle
\* changes, with the duty cycle at 0.
C28_Witness == vpc = "done" /\ duty = 0 /\ changes = 2

\* C29: when the sweep of phase B ends the servo has been brought back from
\* the extreme it was driven to: the last duty cycle applied is below the
\* one of the extreme angle.
C29_SweepReturns ==
  [][\A c \in {1} :
       (spc[c] = "running" /\ spc'[c] = "done") => duty' < 36 + 159]_vars

\* C30: rotate_servo makes exactly 160 duty-cycle changes, the k-th for
\* angle k-1 with duty angle/18 + 2, each followed by a sleep; it does not
\* set the duty cycle back to 0, so that a sequence that ends leaves the
\* PWM at the duty cycle for angle 159.
C30_SweepLeavesDuty ==
  [][/\ (rpc = "r_change" /\ rpc' # rpc) =>
          /\ rangle = changes /\ rangle \in 0..159
          /\ duty' = 36 + rangle /\ changes' = changes + 1
          /\ rpc' = "r_sleep"
     /\ (rpc = "r_sleep" /\ rpc' = "r_change") =>
          (rangle' = rangle + 1 /\ duty' = duty /\ changes' = changes)
     /\ (rpc = "r_sleep" /\ rpc' = "none") =>
          (changes = 160 /\ duty = 36 + 159 /\ duty' = duty)
     /\ pc'[1] = "returned" => (changes' = 160 /\ duty' = 36 + 159)]_vars

\* C30 witness: the sequence has ended after a full sweep, the PWM left at
\* the duty cycle for angle 159.
C30_Witness ==
  /\ pc[1] = "returned" /\ spc[1] = "done" /\ rpc = "none"
  /\ changes = 160 /\ duty = 195

\* the positions of button_callback from its delay sleep on
FromDelay ==
  {"sleep", "start_servo", "join_audio", "join_servo", "fin_led", "fin_flag",
   "returned", "raised"}

C32_AcceptedTriggerRuns ==
  \A c \in Callers : hpc[c] = "ok" => pc[c] # "ignored"

\* C33: in every reachable state, the states in the middle of
\* load_audio_files included, preloaded_sounds and audio_filenames have the
\* same length.
C33_ListsSameLength == Len(preloaded_sounds) = Len(audio_filenames)

\* C34: a reload that fails leaves the library as it was: when the listing
\* of the folder fails inside load_audio_files, and when /reload answers
\* success false after load_audio_files has returned, the library holds as
\* many sounds as before the reload.
C34_FailedReloadKeepsLibrary ==
  [][/\ (lpc = "l_list" /\ lpc' = "l_resp" /\ dir.exists) =>
          Len(preloaded_sounds') = lprev
     /\ (lpc = "l_resp" /\ lpc' = "done" /\ ~lresp'.success) =>
          Len(preloaded_sounds') = lprev]_vars

\* C35: once main() has run cleanup(), no sequence still running on a
\* worker thread operates the hardware or the mixer: the LED level, the
\* PWM duty cycle and the mixer are not touched any more.
C35_NothingAfterTeardown ==
  [][cleanups >= 1 =>
       (led' = led /\ duty' = duty /\ mixer_busy' = mixer_busy)]_vars

\* a step of one of the /play, /status, /sounds and /reload handlers
HandlerStep == <<relVars, playVars, statVars, soundsVars>>' # <<relVars, playVars, statVars, soundsVars>>

\* C36: the /play, /status, /sounds and /reload handlers never change the
\* busy flag, the indicator LED or the servo, whether a sequence runs or
\* not; callback_in_progress is written by button_callback only, where it
\* sets the flag and where it resets it.
C36_HandlersLeaveSequencerAlone ==
  [][/\ HandlerStep =>
          /\ UNCHANGED <<callback_in_progress, led, spc, pc>>
          /\ UNCHANGED servoVars
     /\ callback_in_progress' # callback_in_progress =>
          \E c \in Callers : pc[c] \in {"set", "fin_flag"} /\ pc'[c] # pc[c]]_vars

\* C36 witness: while a sequence is in its delay with the flag set and the
\* LED on, /play, /status, /sounds and /reload have all been answered.
C36_Witness ==
  /\ pc[1] = "sleep" /\ callback_in_progress /\ led
  /\ presp # NoResponse /\ stresp # NoResponse
  /\ sndresp # NoResponse /\ lresp # NoResponse

\* the positions of button_callback between its indicator-ON step and its
\* release
LedHeld == {"start_audio", "sleep", "start_servo", "join_audio", "join_servo"}

\* C37: the indicator tracks the sequence: the LED is on only while
\* callback_in_progress is true; it is on for as long as a sequence is
\* between its indicator-ON step and its release; and it is off when the
\* controller is idle again.
C37_IndicatorTracksSequence ==
  /\ led => callback_in_progress
  /\ \A c \in Callers : pc[c] \in LedHeld => led
  /\ (~callback_in_progress /\ \A c \in Callers : pc[c] \in Finished \cup {"idle"})
       => ~led

====
